---- MODULE Spec2Model ----
(***************************************************************************)
(* Model of the simulated terminal of src/pages/Index.tsx: the command     *)
(* interpreter runCommand, the navigation state (cwd, selectedProject,     *)
(* selectedWorkFile), the scrollback (history) and the UI handlers that    *)
(* change them.                                                            *)
(*                                                                         *)
(* A command line is a sequence of pieces; the string the user typed is    *)
(* the concatenation of the pieces (Raw).  A piece is either a whitespace  *)
(* character or a run of non-whitespace characters, so that trim() and     *)
(* split(/\s+/) are computed on the line as JavaScript computes them.      *)
(* string | null values are modelled as Null or Some(s).                   *)
(* Strings are written in ASCII: a character that is not printable ASCII   *)
(* and has no escape of its own (\t, \n, \f, \r) is written as the six     *)
(* characters \uXXXX of its code point, as in a JavaScript string literal; *)
(* no text of the program and no submitted line holds these six characters *)
(* literally.                                                              *)
(* The text being typed in the input box is not kept between events: a     *)
(* submission types a line and presses Enter in one step, and submitted    *)
(* records the line of the latest submission.                              *)
(***************************************************************************)
EXTENDS Integers, Sequences, FiniteSets, TLC

VARIABLES cwd, selectedProject, selectedWorkFile, history, isDarkTheme, submitted

vars == <<cwd, selectedProject, selectedWorkFile, history, isDarkTheme, submitted>>

nav == <<cwd, selectedProject, selectedWorkFile>>

\* Longest scrollback the model explores.
MaxHistory == 2

-----------------------------------------------------------------------------
\* Values

Null == <<>>

Some(x) == <<x>>

TABS == <<"terminal", "aboutme", "skills", "workexperience", "projects", "contactme">>

TabType == {TABS[i] : i \in 1..Len(TABS)}

ProjectKey == {"sentiment_analysis", "airbnb_analysis", "movie_recommender"}

\* The registry, reduced to the field the page shows on the project buttons.
projectsMeta == [k \in ProjectKey |-> [file |-> k \o ".py"]]

\* Property names every object literal inherits from Object.prototype.
ObjectPrototypeKeys ==
  {"constructor", "toString", "toLocaleString", "valueOf", "hasOwnProperty",
   "isPrototypeOf", "propertyIsEnumerable", "__proto__", "__defineGetter__",
   "__defineSetter__", "__lookupGetter__", "__lookupSetter__"}

files == <<"saasguru.sql", "optimal_strategix_group.sql", "capgemini.sql">>

WorkFile == {files[i] : i \in 1..Len(files)}

\* The source writes the separator before each author as the three
\* characters U+00E2 U+20AC U+201C.
fortunes ==
  <<"Data is the new oil. \\u00e2\\u20ac\\u201c Clive Humby",
    "In God we trust. All others must bring data. \\u00e2\\u20ac\\u201c W. Edwards Deming",
    "Without big data, you are blind and deaf. \\u00e2\\u20ac\\u201c Geoffrey Moore",
    "Torture the data, and it will confess to anything. \\u00e2\\u20ac\\u201c Ronald Coase">>

towelArt == "\n                              _..----.._\n                          _.-'          '-._\n                       .-'    .-''\"''-.     '-.\n                     .'     /__________\\\\      '.\n                    /      |            |       \\\n                   /       |   ASCII    |        \\\n                   |       |    ART!    |        |\n                   |       '------------'        |\n                   |                              |\n                   |                              |\n                   '._      TOWEL.BLINKENLIGHTS   |\n                      '-._   .-''\"''-.        _.-'\n                          '-._\\\\______/_..--'\n"

helpText == "Commands: ls, cd [aboutme|skills|workexperience|projects|contactme], view <project_key>, fortune, telnet [towel.blinkenlights.nl|me], help"

HistoryEntry(c, o) == [cmd |-> c, output |-> o]

-----------------------------------------------------------------------------
\* Strings: String.prototype.trim, String.prototype.split(/\s+/)

\* The 25 characters that trim() strips and /\s/ matches: tab, line feed,
\* vertical tab, form feed, carriage return, space, U+00A0, U+1680, U+2000
\* to U+200A, U+2028, U+2029, U+202F, U+205F, U+3000 and U+FEFF.  Each is one
\* piece of a line.
WhiteSpace ==
  {" ", "\t", "\n", "\r", "\f", "\\u000b", "\\u00a0", "\\u1680", "\\u2000",
   "\\u2001", "\\u2002", "\\u2003", "\\u2004", "\\u2005", "\\u2006",
   "\\u2007", "\\u2008", "\\u2009", "\\u200a", "\\u2028", "\\u2029",
   "\\u202f", "\\u205f", "\\u3000", "\\ufeff"}

RECURSIVE Raw(_)
Raw(line) == IF line = <<>> THEN "" ELSE Head(line) \o Raw(Tail(line))

RECURSIVE TrimStart(_)
TrimStart(line) ==
  IF line # <<>> /\ Head(line) \in WhiteSpace THEN TrimStart(Tail(line)) ELSE line

RECURSIVE TrimEnd(_)
TrimEnd(line) ==
  IF line # <<>> /\ line[Len(line)] \in WhiteSpace
  THEN TrimEnd(SubSeq(line, 1, Len(line) - 1))
  ELSE line

Trim(line) == TrimEnd(TrimStart(line))

\* split(/\s+/): cur is the token being read; a maximal run of whitespace
\* ends it.  The empty string splits into one empty token.
RECURSIVE SplitFrom(_, _)
SplitFrom(line, cur) ==
  IF line = <<>> THEN <<cur>>
  ELSE IF Head(line) \in WhiteSpace
       THEN IF Tail(line) # <<>> /\ Head(Tail(line)) \in WhiteSpace
            THEN SplitFrom(Tail(line), cur)
            ELSE <<cur>> \o SplitFrom(Tail(line), "")
       ELSE SplitFrom(Tail(line), cur \o Head(line))

Split(line) == SplitFrom(line, "")

\* Tokens without the trim
Tokens_NoTrim(cmd) == Split(cmd)

\* const [base, arg] = cmd.trim().split(/\s+/)
Tokens(cmd) == Split(Trim(cmd))

Base(cmd) == Tokens(cmd)[1]

\* arg is undefined when the line has one token
HasArg(cmd) == Len(Tokens(cmd)) >= 2

Arg(cmd) == Tokens(cmd)[2]

\* `${arg}` in a template literal
ArgText(cmd) == IF HasArg(cmd) THEN Arg(cmd) ELSE "undefined"

\* key in obj: own properties and those of the prototype chain
In(key, obj) == key \in DOMAIN obj \/ key \in ObjectPrototypeKeys

\* TABS.includes(arg)
Includes(arr, x) == \E i \in 1..Len(arr) : arr[i] = x

-----------------------------------------------------------------------------------------------------------------------------------------------------
\* runCommand

\* setHistory(h => [...h, { cmd, output }]); submitted remembers the line
\* that was passed to runCommand.
Log(cmd, output) ==
  /\ history' = Append(history, HistoryEntry(Raw(cmd), output))
  /\ submitted' = cmd

\* base === 'view' && arg && arg in projectsMeta
IsView(cmd) ==
  Base(cmd) = "view" /\ HasArg(cmd) /\ Arg(cmd) # "" /\ In(Arg(cmd), projectsMeta)

\* ViewBranch without its return: the switch runs too and logs a second entry
ViewBranch_NoReturn(cmd) ==
  /\ selectedProject' = Some(Arg(cmd))
  /\ history' = Append(Append(history, HistoryEntry(Raw(cmd), Null)),
                       HistoryEntry(Raw(cmd), Some("zsh: command not found: " \o Base(cmd))))
  /\ submitted' = cmd
  /\ UNCHANGED <<cwd, selectedWorkFile>>

ViewBranch(cmd) ==
  /\ selectedProject' = Some(Arg(cmd))
  /\ Log(cmd, Null)
  /\ UNCHANGED <<cwd, selectedWorkFile>>

\* CaseLs that prints the section names
CaseLs_Lists(cmd) ==
  /\ Log(cmd, Some("aboutme skills workexperience projects contactme"))
  /\ UNCHANGED nav

CaseLs(cmd) ==
  /\ Log(cmd, Null)
  /\ UNCHANGED nav

\* NoSuchFile naming the verb instead of the argument
NoSuchFile_NamesVerb(cmd) == "zsh: no such file or directory: " \o Base(cmd)

NoSuchFile(cmd) == "zsh: no such file or directory: " \o ArgText(cmd)

\* CaseCd without setSelectedProject(null)
CaseCd_KeepsProject(cmd) ==
  IF HasArg(cmd) /\ Includes(TABS, Arg(cmd))
  THEN /\ cwd' = Arg(cmd)
       /\ selectedWorkFile' = Null
       /\ Log(cmd, Null)
       /\ UNCHANGED selectedProject
  ELSE /\ Log(cmd, Some(NoSuchFile(cmd)))
       /\ UNCHANGED nav

CaseCd(cmd) ==
  IF HasArg(cmd) /\ Includes(TABS, Arg(cmd))
  THEN /\ cwd' = Arg(cmd)
       /\ selectedProject' = Null
       /\ selectedWorkFile' = Null
       /\ Log(cmd, Null)
  ELSE /\ Log(cmd, Some(NoSuchFile(cmd)))
       /\ UNCHANGED nav

\* CaseHelp that answers a topic instead of printing the list
CaseHelp_PerTopic(cmd) ==
  /\ Log(cmd, IF HasArg(cmd) THEN Some("zsh: no help for: " \o Arg(cmd))
              ELSE Some(helpText))
  /\ UNCHANGED nav

CaseHelp(cmd) ==
  /\ Log(cmd, Some(helpText))
  /\ UNCHANGED nav

\* CaseFortune scaling the random number by length - 1
CaseFortune_SkipsLast(cmd) ==
  \E r \in 0..(Len(fortunes) - 2) :
    /\ Log(cmd, Some(fortunes[r + 1]))
    /\ UNCHANGED nav

\* r is Math.floor(Math.random() * fortunes.length)
CaseFortune(cmd) ==
  \E r \in 0..(Len(fortunes) - 1) :
    /\ Log(cmd, Some(fortunes[r + 1]))
    /\ UNCHANGED nav

\* CouldNotConnect naming the verb instead of the host
CouldNotConnect_NamesVerb(cmd) == "zsh: could not connect to host: " \o Base(cmd)

CouldNotConnect(cmd) == "zsh: could not connect to host: " \o ArgText(cmd)

\* CaseTelnet that misspells the easter-egg host
CaseTelnet_HostTypo(cmd) ==
  IF HasArg(cmd) /\ Arg(cmd) = "towel.blinkenlights.n1"
  THEN /\ Log(cmd, Some(towelArt))
       /\ UNCHANGED nav
  ELSE IF HasArg(cmd) /\ Arg(cmd) = "me"
  THEN /\ cwd' = "contactme"
       /\ selectedProject' = Null
       /\ selectedWorkFile' = Null
       /\ Log(cmd, Null)
  ELSE /\ Log(cmd, Some(CouldNotConnect(cmd)))
       /\ UNCHANGED nav

\* CaseTelnet whose 'me' branch lacks setSelectedProject(null)
CaseTelnet_KeepsProject(cmd) ==
  IF HasArg(cmd) /\ Arg(cmd) = "towel.blinkenlights.nl"
  THEN /\ Log(cmd, Some(towelArt))
       /\ UNCHANGED nav
  ELSE IF HasArg(cmd) /\ Arg(cmd) = "me"
  THEN /\ cwd' = "contactme"
       /\ selectedWorkFile' = Null
       /\ Log(cmd, Null)
       /\ UNCHANGED selectedProject
  ELSE /\ Log(cmd, Some(CouldNotConnect(cmd)))
       /\ UNCHANGED nav

CaseTelnet(cmd) ==
  IF HasArg(cmd) /\ Arg(cmd) = "towel.blinkenlights.nl"
  THEN /\ Log(cmd, Some(towelArt))
       /\ UNCHANGED nav
  ELSE IF HasArg(cmd) /\ Arg(cmd) = "me"
  THEN /\ cwd' = "contactme"
       /\ selectedProject' = Null
       /\ selectedWorkFile' = Null
       /\ Log(cmd, Null)
  ELSE /\ Log(cmd, Some(CouldNotConnect(cmd)))
       /\ UNCHANGED nav

\* NotFound echoing the whole line instead of the verb
NotFound_WholeLine(cmd) == "zsh: command not found: " \o Raw(cmd)

NotFound(cmd) == "zsh: command not found: " \o Base(cmd)

CaseDefault(cmd) ==
  /\ Log(cmd, Some(NotFound(cmd)))
  /\ UNCHANGED nav

runCommand(cmd) ==
  /\ IF IsView(cmd) THEN ViewBranch(cmd)
     ELSE CASE Base(cmd) = "ls" -> CaseLs(cmd)
            [] Base(cmd) = "cd" -> CaseCd(cmd)
            [] Base(cmd) = "help" -> CaseHelp(cmd)
            [] Base(cmd) = "fortune" -> CaseFortune(cmd)
            [] Base(cmd) = "telnet" -> CaseTelnet(cmd)
            [] OTHER -> CaseDefault(cmd)
  /\ UNCHANGED isDarkTheme

-----------------------------------------------------------------------------
\* Command lines the model submits

Lines ==
  { <<>>, <<" ">>, <<"\t", " ">>,
    <<"ls">>, <<"ls", " ", "skills">>,
    <<"cd">>, <<"cd", " ", "terminal">>, <<"cd", " ", "aboutme">>,
    <<"cd", " ", "skills">>, <<"cd", " ", "workexperience">>,
    <<"cd", " ", "projects">>, <<"cd", " ", "contactme">>,
    <<"cd", " ", "bogus">>, <<"cd", " ", "Skills">>,
    <<"help">>, <<"help", " ", "me">>,
    <<"fortune">>,
    <<"telnet">>, <<"telnet", " ", "me">>,
    <<"telnet", " ", "towel.blinkenlights.nl">>, <<"telnet", " ", "bogus">>,
    <<"view">>, <<"view", " ", "bogus">>, <<"view", " ", "toString">>,
    <<"view", " ", "sentiment_analysis">>, <<"view", " ", "airbnb_analysis">>,
    <<"view", " ", "movie_recommender">>,
    <<"foo">>, <<"foo", " ", "skills">>, <<"CD", " ", "skills">>,
    <<" ", "cd", " ", "\t", "skills", " ", "extra", " ">>,
    <<"\f", "view", " ", "\\u3000", "airbnb_analysis", " ", "x">> }

-----------------------------------------------------------------------------
\* State and handlers

Init ==
  /\ cwd = "terminal"
  /\ selectedProject = Null
  /\ selectedWorkFile = Null
  /\ history = <<>>
  /\ isDarkTheme = TRUE
  /\ submitted = <<>>

\* onKeyDown of an input that is rendered on every tab
onKeyDown_AnyTab(cmd) ==
  /\ Len(history) < MaxHistory
  /\ runCommand(cmd)

\* Enter in the command input, which is rendered only on the terminal tab
onKeyDown(cmd) ==
  /\ cwd = "terminal"
  /\ Len(history) < MaxHistory
  /\ runCommand(cmd)

\* EnterSection that also writes the navigation into the scrollback
EnterSection_Logged(t) ==
  /\ cwd' = t
  /\ selectedProject' = Null
  /\ selectedWorkFile' = Null
  /\ history' = Append(history, HistoryEntry("cd " \o t, Null))
  /\ UNCHANGED <<isDarkTheme, submitted>>

\* EnterSection without setSelectedWorkFile(null)
EnterSection_KeepsWorkFile(t) ==
  /\ cwd' = t
  /\ selectedProject' = Null
  /\ UNCHANGED <<selectedWorkFile, history, isDarkTheme, submitted>>

\* EnterSection without setSelectedProject(null)
EnterSection_KeepsProject(t) ==
  /\ cwd' = t
  /\ selectedWorkFile' = Null
  /\ UNCHANGED <<selectedProject, history, isDarkTheme, submitted>>

\* The three setters shared by the tab buttons and the dropdown
EnterSection(t) ==
  /\ cwd' = t
  /\ selectedProject' = Null
  /\ selectedWorkFile' = Null
  /\ UNCHANGED <<history, isDarkTheme, submitted>>

TabClick(t) == EnterSection(t)

SelectChange(t) == EnterSection(t)

PlusClick ==
  /\ cwd' = "terminal"
  /\ UNCHANGED <<selectedProject, selectedWorkFile, history, isDarkTheme, submitted>>

ThemeClick ==
  /\ isDarkTheme' = ~isDarkTheme
  /\ UNCHANGED <<cwd, selectedProject, selectedWorkFile, history, submitted>>

\* The project buttons exist only on the projects tab
ProjectClick(k) ==
  /\ cwd = "projects"
  /\ selectedProject' = Some(k)
  /\ UNCHANGED <<cwd, selectedWorkFile, history, isDarkTheme, submitted>>

\* The file buttons exist only on the workexperience tab
WorkFileClick(f) ==
  /\ cwd = "workexperience"
  /\ selectedWorkFile' = Some(f)
  /\ UNCHANGED <<cwd, selectedProject, history, isDarkTheme, submitted>>

Submit == \E cmd \in Lines : onKeyDown(cmd)

Tab == \E t \in TabType : TabClick(t)

Dropdown == \E t \in TabType : SelectChange(t)

Project == \E k \in ProjectKey : ProjectClick(k)

Work == \E f \in WorkFile : WorkFileClick(f)

\* The submissions that select a project, and one cd: with the UI handlers
\* they reach every navigation state the program reaches.
NavLines ==
  { <<"cd", " ", "projects">>, <<"view", " ", "toString">>,
    <<"view", " ", "sentiment_analysis">>, <<"view", " ", "airbnb_analysis">>,
    <<"view", " ", "movie_recommender">> }

SubmitNav == \E cmd \in NavLines : onKeyDown(cmd)

Next ==
  \/ Submit
  \/ Tab
  \/ Dropdown
  \/ PlusClick
  \/ ThemeClick
  \/ Project
  \/ Work

Spec == Init /\ [][Next]_vars

NextNav ==
  \/ SubmitNav
  \/ Tab
  \/ Dropdown
  \/ PlusClick
  \/ ThemeClick
  \/ Project
  \/ Work

\* The program with its submissions drawn from NavLines
SpecNav == Init /\ [][NextNav]_vars

TypeOK ==
  /\ cwd \in STRING
  /\ isDarkTheme \in BOOLEAN
  /\ Len(history) <= MaxHistory

-----------------------------------------------------------------------------
\* Vocabulary of the properties

\* The step is a call of runCommand on the line submitted'.  Every branch of
\* runCommand writes the scrollback, so a step that keeps it is none.
RunStep == history' # history /\ onKeyDown(submitted')

\* The entry at the end of the scrollback
LastEntry(h) == h[Len(h)]

\* The step appended exactly one entry, with output o, and kept the rest
AppendsOne(o) ==
  /\ Len(history') = Len(history) + 1
  /\ SubSeq(history', 1, Len(history)) = history
  /\ LastEntry(history').cmd = Raw(submitted')
  /\ LastEntry(history').output = o

SelectionsAbsent == selectedProject' = Null /\ selectedWorkFile' = Null

NavUnchanged == nav' = nav

KnownVerbs == {"view", "ls", "cd", "help", "fortune", "telnet"}

\* cd with one of the six section names
CdSection(cmd) == Base(cmd) = "cd" /\ HasArg(cmd) /\ Arg(cmd) \in TabType

\* cd with anything else, the missing argument included
CdOther(cmd) == Base(cmd) = "cd" /\ ~CdSection(cmd)

TelnetMe(cmd) == Base(cmd) = "telnet" /\ HasArg(cmd) /\ Arg(cmd) = "me"

ViewKey(cmd) == Base(cmd) = "view" /\ HasArg(cmd) /\ Arg(cmd) \in ProjectKey

ViewOther(cmd) == Base(cmd) = "view" /\ ~ViewKey(cmd)

OnlyWhiteSpace(cmd) == \A i \in 1..Len(cmd) : cmd[i] \in WhiteSpace

UiStep == Tab \/ Dropdown \/ PlusClick \/ ThemeClick \/ Project \/ Work

-----------------------------------------------------------------------------
\* C1: every step that enters a section - cd with a section name, telnet me,
\* a tab click, a dropdown selection, the '+' button - ends with
\* selectedProject and selectedWorkFile both absent.
C1_EnteringASectionClearsSelections ==
  [][ ( \/ RunStep /\ (CdSection(submitted') \/ TelnetMe(submitted'))
        \/ Tab
        \/ Dropdown
        \/ PlusClick )
      => SelectionsAbsent ]_vars

\* C2: a line that is empty or only whitespace changes no navigation state
\* and appends one entry whose output is absent.
C2_BlankLineIsSilent ==
  [][ RunStep /\ OnlyWhiteSpace(submitted')
      => NavUnchanged /\ AppendsOne(Null) ]_vars

\* C3: view with no argument, or with an argument that is not a key of the
\* project registry, changes no navigation state and appends an entry whose
\* output is absent.
C3_ViewWithoutKeyIsSilent ==
  [][ RunStep /\ ViewOther(submitted')
      => NavUnchanged /\ AppendsOne(Null) ]_vars

\* C4: cd X with X a section name sets cwd to X, makes both selections
\* absent and appends an entry whose output is absent, whatever the state
\* before.
C4_CdSectionEnters ==
  [][ RunStep /\ CdSection(submitted')
      => /\ cwd' = Arg(submitted')
         /\ SelectionsAbsent
         /\ AppendsOne(Null) ]_vars

\* cd terminal was run on the terminal tab after a project had been viewed
C4_Witness ==
  /\ Len(history) = 2
  /\ history[1] = HistoryEntry("view sentiment_analysis", Null)
  /\ history[2] = HistoryEntry("cd terminal", Null)
  /\ submitted = <<"cd", " ", "terminal">>
  /\ cwd = "terminal"
  /\ selectedProject = Null

\* C5 as stated: cd X with X not a section name changes no navigation state
\* and its output is "no such file or directory: X".
C5_Original ==
  [][ RunStep /\ CdOther(submitted') /\ HasArg(submitted')
      => /\ NavUnchanged
         /\ AppendsOne(Some("no such file or directory: " \o Arg(submitted'))) ]_vars

\* C5 amended: cd X with X not a section name changes no navigation state
\* and its output is "zsh: no such file or directory: X"; a cd without
\* argument reads X as undefined.
C5_CdOtherReports ==
  [][ RunStep /\ CdOther(submitted')
      => /\ NavUnchanged
         /\ AppendsOne(Some("zsh: no such file or directory: " \o
              (IF HasArg(submitted') THEN Arg(submitted') ELSE "undefined"))) ]_vars

C5_Witness ==
  /\ history # <<>>
  /\ LastEntry(history) =
       HistoryEntry("cd bogus", Some("zsh: no such file or directory: bogus"))
  /\ submitted = <<"cd", " ", "bogus">>
  /\ cwd = "terminal"
  /\ selectedProject # Null

\* C6 as stated: an unknown verb Z changes no navigation state and its
\* output is "command not found: Z".
C6_Original ==
  [][ RunStep /\ Base(submitted') \notin KnownVerbs
      => /\ NavUnchanged
         /\ AppendsOne(Some("command not found: " \o Base(submitted'))) ]_vars

\* C6 amended: an unknown verb Z changes no navigation state and its output
\* is "zsh: command not found: Z".
C6_UnknownVerbReports ==
  [][ RunStep /\ Base(submitted') \notin KnownVerbs
      => /\ NavUnchanged
         /\ AppendsOne(Some("zsh: command not found: " \o Base(submitted'))) ]_vars

C6_Witness ==
  /\ history # <<>>
  /\ LastEntry(history) =
       HistoryEntry("foo skills", Some("zsh: command not found: foo"))
  /\ submitted = <<"foo", " ", "skills">>
  /\ cwd = "terminal"

\* C7: view K with K a project key sets selectedProject to K, keeps cwd and
\* selectedWorkFile, and appends exactly one entry, whose output is absent.
C7_ViewKeySelects ==
  [][ RunStep /\ ViewKey(submitted')
      => /\ selectedProject' = Some(Arg(submitted'))
         /\ cwd' = cwd
         /\ selectedWorkFile' = selectedWorkFile
         /\ AppendsOne(Null) ]_vars

\* view ran while a work file was still selected
C7_Witness ==
  /\ history # <<>>
  /\ LastEntry(history) = HistoryEntry("view movie_recommender", Null)
  /\ submitted = <<"view", " ", "movie_recommender">>
  /\ selectedProject = Some("movie_recommender")
  /\ selectedWorkFile = Some("capgemini.sql")
  /\ cwd = "terminal"

\* C8: the scrollback is append-only: a submission appends exactly one entry
\* at the end, every other event leaves the scrollback as it is, and the
\* scrollback before a step is a prefix of the scrollback after it.
C8_ScrollbackAppendOnly ==
  [][ /\ RunStep =>
           /\ Len(history') = Len(history) + 1
           /\ LastEntry(history').cmd = Raw(submitted')
      /\ UiStep => history' = history
      /\ Len(history) <= Len(history')
      /\ SubSeq(history', 1, Len(history)) = history ]_vars

\* two submissions, then UI events
C8_Witness ==
  /\ Len(history) = 2
  /\ history[1].cmd = "help"
  /\ history[2].cmd = "cd skills"
  /\ cwd = "workexperience"
  /\ selectedWorkFile # Null
  /\ ~isDarkTheme

\* C9: cwd is one of the six sections, selectedProject is absent or a key of
\* the project registry, selectedWorkFile is absent or a key of the
\* work-history registry.
C9_SelectionsAreRegistryKeys ==
  /\ cwd \in TabType
  /\ selectedProject \in {Null} \cup {Some(k) : k \in ProjectKey}
  /\ selectedWorkFile \in {Null} \cup {Some(f) : f \in WorkFile}

\* C10: telnet me sets cwd to contactme, makes both selections absent and
\* appends an entry whose output is absent.
C10_TelnetMeEntersContact ==
  [][ RunStep /\ TelnetMe(submitted')
      => /\ cwd' = "contactme"
         /\ SelectionsAbsent
         /\ AppendsOne(Null) ]_vars

\* telnet me was run after a project had been viewed
C10_Witness ==
  /\ Len(history) = 2
  /\ history[1] = HistoryEntry("view airbnb_analysis", Null)
  /\ history[2] = HistoryEntry("telnet me", Null)
  /\ submitted = <<"telnet", " ", "me">>
  /\ cwd = "contactme"
  /\ selectedProject = Null
  /\ selectedWorkFile = Null

\* telnet with anything but the two literals, the missing argument included
TelnetOther(cmd) ==
  /\ Base(cmd) = "telnet"
  /\ ~(HasArg(cmd) /\ Arg(cmd) \in {"towel.blinkenlights.nl", "me"})

\* C11 as stated: telnet X with X neither literal changes no navigation state
\* and its output is "could not connect to host: X".
C11_Original ==
  [][ RunStep /\ TelnetOther(submitted') /\ HasArg(submitted')
      => /\ NavUnchanged
         /\ AppendsOne(Some("could not connect to host: " \o Arg(submitted'))) ]_vars

\* C11 amended: telnet X with X neither literal changes no navigation state
\* and its output is "zsh: could not connect to host: X"; a telnet without
\* argument reads X as undefined.
C11_TelnetOtherReports ==
  [][ RunStep /\ TelnetOther(submitted')
      => /\ NavUnchanged
         /\ AppendsOne(Some("zsh: could not connect to host: " \o
              (IF HasArg(submitted') THEN Arg(submitted') ELSE "undefined"))) ]_vars

\* telnet without a host was run
C11_Witness ==
  /\ history # <<>>
  /\ LastEntry(history) =
       HistoryEntry("telnet", Some("zsh: could not connect to host: undefined"))
  /\ submitted = <<"telnet">>
  /\ cwd = "terminal"

\* C13: cd skills submitted on an empty scrollback sets cwd to skills and
\* logs an entry without output; ls submitted next changes no navigation
\* state and logs an entry without output, so that the scrollback holds
\* exactly these two entries in order; and ls with any argument changes no
\* navigation state and has no output.
C13_CdSkillsThenLs ==
  [][ /\ RunStep /\ history = <<>> /\ Raw(submitted') = "cd skills"
         => /\ cwd' = "skills"
            /\ history' = <<HistoryEntry("cd skills", Null)>>
      /\ RunStep /\ history = <<HistoryEntry("cd skills", Null)>>
                 /\ Raw(submitted') = "ls"
         => /\ NavUnchanged
            /\ history' = <<HistoryEntry("cd skills", Null), HistoryEntry("ls", Null)>>
      /\ RunStep /\ Base(submitted') = "ls"
         => NavUnchanged /\ AppendsOne(Null) ]_vars

\* cd skills, a return to the terminal tab, then ls
C13_Witness ==
  /\ history = <<HistoryEntry("cd skills", Null), HistoryEntry("ls", Null)>>
  /\ submitted = <<"ls">>
  /\ cwd = "terminal"

TelnetTowel(cmd) ==
  Base(cmd) = "telnet" /\ HasArg(cmd) /\ Arg(cmd) = "towel.blinkenlights.nl"

\* C15: telnet towel.blinkenlights.nl changes no navigation state and its
\* output is the fixed text block.
C15_TelnetTowelShowsArt ==
  [][ RunStep /\ TelnetTowel(submitted')
      => NavUnchanged /\ AppendsOne(Some(towelArt)) ]_vars

\* the block was printed while a project was selected
C15_Witness ==
  /\ history # <<>>
  /\ LastEntry(history).cmd = "telnet towel.blinkenlights.nl"
  /\ LastEntry(history).output = Some(towelArt)
  /\ submitted = <<"telnet", " ", "towel.blinkenlights.nl">>
  /\ cwd = "terminal"
  /\ selectedProject = Some("sentiment_analysis")

\* The help lines the model submits, as typed
HelpLines == {"help", "help me"}

\* C16: help, with or without argument, changes no navigation state and
\* logs the fixed list of commands, so that any two help entries of the
\* scrollback carry the same output.
C16_HelpIsFixed ==
  /\ [](\A i, j \in 1..Len(history) :
          history[i].cmd \in HelpLines /\ history[j].cmd \in HelpLines
          => history[i].output = history[j].output)
  /\ [][ RunStep /\ Base(submitted') = "help"
         => NavUnchanged /\ AppendsOne(Some(helpText)) ]_vars

\* help ran twice, with and without argument, the second time with a work
\* file selected
C16_Witness ==
  /\ Len(history) = 2
  /\ history[1].cmd = "help"
  /\ history[2].cmd = "help me"
  /\ history[1].output = history[2].output
  /\ submitted = <<"help", " ", "me">>
  /\ selectedWorkFile # Null
  /\ cwd = "terminal"

\* C18: the scrollback changes only in steps taken on the terminal tab, so
\* no command runs while another section is shown.
C18_CommandsOnlyOnTerminal ==
  /\ [][ history' # history => cwd = "terminal" ]_vars
  /\ [](cwd # "terminal" => ~ENABLED Submit)

\* telnet me left the terminal tab: the scrollback has room, no line can be
\* submitted
C18_Witness ==
  /\ history = <<HistoryEntry("telnet me", Null)>>
  /\ cwd = "contactme"
  /\ Len(history) < MaxHistory
  /\ ~ENABLED Submit

\* C19: every step that enters the projects section, after a view K as after
\* anything else, arrives with selectedProject absent; a step ends on the
\* projects section with a project selected only if it is a project-button
\* click or started there with that project selected.
C19_ProjectsShowsOnlyClickedProject ==
  [][ /\ cwd # "projects" /\ cwd' = "projects" => selectedProject' = Null
      /\ cwd' = "projects" /\ selectedProject' # Null
         => /\ cwd = "projects"
            /\ Project \/ selectedProject' = selectedProject ]_vars

\* the project chosen by view is gone on arrival in the projects section
C19_Witness ==
  /\ history = <<HistoryEntry("view sentiment_analysis", Null)>>
  /\ submitted = <<"view", " ", "sentiment_analysis">>
  /\ cwd = "projects"
  /\ selectedProject = Null

\* C20: a selected work file implies cwd is workexperience, a selected
\* project implies cwd is projects or terminal, and the two are never
\* selected together.
C20_SelectionsBelongToTheirSection ==
  /\ selectedWorkFile # Null => cwd = "workexperience"
  /\ selectedProject # Null => cwd \in {"projects", "terminal"}
  /\ ~(selectedProject # Null /\ selectedWorkFile # Null)

Quotations == {fortunes[i] : i \in 1..Len(fortunes)}

\* C14: fortune changes no navigation state and its output is one of the
\* quotations; and wherever fortune can be submitted, each quotation is the
\* output of one of its possible steps.
C14_FortuneDrawsFromTheList ==
  /\ [][ RunStep /\ Base(submitted') = "fortune"
         => /\ NavUnchanged
            /\ \E q \in Quotations : AppendsOne(Some(q)) ]_vars
  /\ [](ENABLED onKeyDown(<<"fortune">>)
        => \A q \in Quotations :
             ENABLED (onKeyDown(<<"fortune">>) /\ LastEntry(history').output = Some(q)))

\* two runs of fortune gave the first and the last quotation
C14_Witness ==
  /\ Len(history) = 2
  /\ history[1] = HistoryEntry("fortune", Some(fortunes[Len(fortunes)]))
  /\ history[2] = HistoryEntry("fortune", Some(fortunes[1]))
  /\ submitted = <<"fortune">>
  /\ cwd = "terminal"

IsWord(p) == p \notin WhiteSpace

\* The line reduced to its first two words, one space between them (in the
\* submitted lines every word is one piece)
Canon(cmd) ==
  LET w == SelectSeq(cmd, IsWord)
  IN  IF Len(w) = 0 THEN <<>>
      ELSE IF Len(w) = 1 THEN <<w[1]>>
      ELSE <<w[1], " ", w[2]>>

CanonOf == [l \in Lines |-> Canon(l)]

\* The other submitted lines that reduce to the line c
VariantsOf == [c \in Lines |-> {l \in Lines : l # c /\ Canon(l) = c}]

\* runCommand on the line l can end with navigation state n and output o
CanYield(l, n, o) ==
  ENABLED (runCommand(l) /\ nav' = n /\ LastEntry(history').output = o)

\* C17: navigation state and output after runCommand depend only on the
\* first two tokens of the trimmed line: what a step on a line yields, the
\* reduced line can yield in the same state, and so can every other line
\* with the same reduction.
C17_OnlyTwoTokensMatter ==
  [][ RunStep =>
        \E c \in {CanonOf[submitted']}, n \in {nav'},
           o \in {LastEntry(history').output} :
          /\ c # submitted' => CanYield(c, n, o)
          /\ \A l \in VariantsOf[submitted'] : CanYield(l, n, o) ]_vars

\* a padded cd with a third token entered skills and cleared the project
C17_Witness ==
  /\ Len(history) = 2
  /\ history[1] = HistoryEntry("view movie_recommender", Null)
  /\ history[2] = HistoryEntry(" cd \tskills extra ", Null)
  /\ submitted = <<" ", "cd", " ", "\t", "skills", " ", "extra", " ">>
  /\ cwd = "skills"
  /\ selectedProject = Null

CdLine(t) == <<"cd", " ", t>>

ViewLine(k) == <<"view", " ", k>>

\* runCommand on the line l can end with navigation state n, and with no
\* other
YieldsOnly(l, n) ==
  /\ ENABLED (runCommand(l) /\ nav' = n)
  /\ ~ENABLED (runCommand(l) /\ nav' # n)

\* C12: a click on tab X and the selection of X in the dropdown end with
\* the navigation state that runCommand ends with on cd X in the same state,
\* and a click on the button of project K ends with the navigation state
\* that runCommand ends with on view K in the same state.
C12_ControlsMatchCommands ==
  [][ /\ \A t \in TabType :
           TabClick(t) \/ SelectChange(t)
           => \E n \in {nav'} : YieldsOnly(CdLine(t), n)
      /\ \A k \in ProjectKey :
           ProjectClick(k)
           => \E n \in {nav'} : YieldsOnly(ViewLine(k), n) ]_vars

\* a project button was clicked, and view of the same key agrees
C12_Witness ==
  /\ cwd = "projects"
  /\ selectedProject = Some("airbnb_analysis")
  /\ history # <<>>
  /\ YieldsOnly(ViewLine("airbnb_analysis"), nav)

====
